---------------------------- MODULE Spec2Model ----------------------------
(***************************************************************************)
(* Sales performance dashboard: the Excel converter (SalesDataConverter,   *)
(* excel_converter.py) and the Streamlit dashboard                         *)
(* (streamlit_app_complete.py).                                            *)
(*                                                                         *)
(* Numbers are exact rationals [n, d] (d > 0, lowest terms): Python floats *)
(* are modelled without rounding.  Strings are sequences of one-character  *)
(* strings, so that replace, strip, lower, float() and int() are computed. *)
(***************************************************************************)
EXTENDS Integers, Sequences, FiniteSets, TLC

VARIABLES
    value,          \* coercion: the raw cell handed to the coercion
    is_percentage,  \* coercion: safe_convert_numeric's is_percentage
    default,        \* coercion: safe_convert_numeric's default
    key,            \* coercion: the column label the dashboard reads the cell under
    conv_result,    \* coercion: what safe_convert_numeric returned
    dash_result,    \* coercion: what the dashboard's safe_get + rescale produced
    df,             \* conversion: the input table [columns: labels in order, rows]
    std_out,        \* conversion: outcome of process_standard_format(df)
    app_out,        \* conversion: outcome of convert_excel_to_sales_data(df)
    valid_out,      \* conversion: outcome of validate_data on the normalizer's records
    rep,            \* scoring: the record handed to calculate_performance_score
    scored,         \* scoring: what calculate_performance_score returned
    sales_data,     \* dashboard: st.session_state.sales_data
    ranked_reps,    \* dashboard: ranked_reps of the current script run
    leaders,        \* dashboard: category_leaders of the current script run
    rankings,       \* dashboard: the detailed ranking table of each bucket
    page,           \* dashboard: how the current script run ended
    load_msg,       \* dashboard: sidebar message of the last load attempt
    xl,             \* file: what pd.read_excel(file_path) yields (a table or an exception)
    format_type,    \* file: what detect_column_format(df) returned
    column_mapping, \* file: the column_mapping process_custom_format built
    file_out,       \* file: outcome of convert_excel_file, with the calls it made
    cli             \* file: sys.argv of a run of main() and how it ended

vars == <<value, is_percentage, default, key, conv_result, dash_result,
          df, std_out, app_out, valid_out, rep, scored,
          sales_data, ranked_reps, leaders, rankings, page, load_msg,
          xl, format_type, column_mapping, file_out, cli>>

coerce_vars == <<value, is_percentage, default, key, conv_result, dash_result>>
convert_vars == <<df, std_out, app_out, valid_out>>
score_vars == <<rep, scored>>
dash_vars == <<sales_data, ranked_reps, leaders, rankings, page, load_msg>>
file_vars == <<xl, format_type, column_mapping, file_out, cli>>

-----------------------------------------------------------------------------
(* Bounds of the model *)

\* longest raw string cell handed to the coercion
MaxLen == 3
\* most rows of an input table
MaxRows == 2
\* most rows of a table loaded into the dashboard
MaxLoadRows == 3

-----------------------------------------------------------------------------
(* Exact rational arithmetic (Python float arithmetic without rounding) *)

Abs(i) == IF i < 0 THEN -i ELSE i

RECURSIVE GCD(_, _)
GCD(a, b) == IF b = 0 THEN a ELSE GCD(b, a % b)

\* the rational n/d (d # 0) in lowest terms with a positive denominator
R(n, d) ==
    LET g == GCD(Abs(n), Abs(d))
        s == IF d < 0 THEN -1 ELSE 1
    IN  [n |-> (s * n) \div g, d |-> (s * d) \div g]

I(i) == [n |-> i, d |-> 1]

\* common factors are divided out before multiplying, to keep the integers small
RAdd(a, b) ==
    LET g == GCD(a.d, b.d)
    IN  R(a.n * (b.d \div g) + b.n * (a.d \div g), (a.d \div g) * b.d)
RMul(a, b) ==
    LET g1 == GCD(Abs(a.n), b.d)
        g2 == GCD(Abs(b.n), a.d)
    IN  R((a.n \div g1) * (b.n \div g2), (a.d \div g2) * (b.d \div g1))
RDiv(a, b) == RMul(a, R(b.d, b.n))
RLe(a, b) == LET g == GCD(a.d, b.d) IN a.n * (b.d \div g) <= b.n * (a.d \div g)
RLt(a, b) == LET g == GCD(a.d, b.d) IN a.n * (b.d \div g) < b.n * (a.d \div g)
RMin(a, b) == IF RLe(a, b) THEN a ELSE b

\* int(x) of a float x: truncation toward zero
RTrunc(a) == IF a.n >= 0 THEN I(a.n \div a.d) ELSE I(-((-a.n) \div a.d))

-----------------------------------------------------------------------------
(* Python values: None, float('nan'), strings, numbers, raised exceptions *)

None == [t |-> "None"]
NaN == [t |-> "nan"]
Str(s) == [t |-> "str", s |-> s]
Num(r) == [t |-> "num", v |-> r]
Raise(e) == [t |-> "raise", exc |-> e]
Pending == [t |-> "pending"]

IsNum(x) == x.t = "num"
IsRaise(x) == x.t = "raise"

\* pd.isna(value) on a scalar cell
pd_isna(x) == x.t \in {"nan", "None"}

\* value == '-' / value == '' : a string compared with a non-string is False
StrEq(x, s) == x.t = "str" /\ x.s = s

-----------------------------------------------------------------------------
(* Strings *)

Digits == {"0", "1", "2", "4"}
DigitVal(c) == CASE c = "0" -> 0 [] c = "1" -> 1 [] c = "2" -> 2 [] c = "4" -> 4

\* the characters raw string cells are made of
Alphabet == {" ", "%", ",", "-", ".", "x"} \cup Digits

RECURSIVE StrsUpTo(_)
StrsUpTo(k) ==
    IF k = 0 THEN {<<>>}
    ELSE LET shorter == StrsUpTo(k - 1)
         IN  shorter \cup {Append(s, c) : s \in {u \in shorter : Len(u) = k - 1}, c \in Alphabet}

\* str.replace(c, '')
Remove(s, c) == SelectSeq(s, LAMBDA ch : ch # c)

RECURSIVE LStrip(_)
LStrip(s) == IF s # <<>> /\ Head(s) = " " THEN LStrip(Tail(s)) ELSE s

RECURSIVE RStrip(_)
RStrip(s) == IF s # <<>> /\ s[Len(s)] = " " THEN RStrip(SubSeq(s, 1, Len(s) - 1)) ELSE s

\* str.strip()
Strip(s) == RStrip(LStrip(s))

UpperLetters ==
    <<"A", "B", "C", "D", "E", "F", "G", "H", "I", "J", "K", "L", "M",
      "N", "O", "P", "Q", "R", "S", "T", "U", "V", "W", "X", "Y", "Z">>
LowerLetters ==
    <<"a", "b", "c", "d", "e", "f", "g", "h", "i", "j", "k", "l", "m",
      "n", "o", "p", "q", "r", "s", "t", "u", "v", "w", "x", "y", "z">>

\* str.lower() of one character
LowerChar(c) ==
    IF \E i \in 1..26 : UpperLetters[i] = c
    THEN LowerLetters[CHOOSE i \in 1..26 : UpperLetters[i] = c]
    ELSE c
Lower(s) == [i \in 1..Len(s) |-> LowerChar(s[i])]

RECURSIVE IntOf(_)
IntOf(ds) == IF ds = <<>> THEN 0 ELSE IntOf(SubSeq(ds, 1, Len(ds) - 1)) * 10 + DigitVal(ds[Len(ds)])

RECURSIVE Pow10(_)
Pow10(k) == IF k = 0 THEN 1 ELSE 10 * Pow10(k - 1)

\* float(s) of a string: optional surrounding whitespace, optional '-', digits
\* with at most one '.', at least one digit.  (Exponents, '+', '_', inf and
\* nan need characters outside Alphabet.)
float_str(s0) ==
    LET s == Strip(s0)
        neg == s # <<>> /\ Head(s) = "-"
        body == IF neg THEN Tail(s) ELSE s
        dots == {i \in 1..Len(body) : body[i] = "."}
        digs == Remove(body, ".")
        wellformed == /\ \A i \in 1..Len(body) : body[i] \in Digits \cup {"."}
                      /\ Cardinality(dots) <= 1
                      /\ digs # <<>>
        frac == IF dots = {} THEN 0 ELSE Len(body) - (CHOOSE i \in dots : TRUE)
        mag == R(IntOf(digs), Pow10(frac))
    IN  IF wellformed THEN Num(IF neg THEN RMul(I(-1), mag) ELSE mag) ELSE Raise("ValueError")

\* int(s) of a string: optional surrounding whitespace, optional '-', digits only
int_str(s0) ==
    LET s == Strip(s0)
        neg == s # <<>> /\ Head(s) = "-"
        body == IF neg THEN Tail(s) ELSE s
        wellformed == body # <<>> /\ \A i \in 1..Len(body) : body[i] \in Digits
    IN  IF wellformed THEN Num(I(IF neg THEN -IntOf(body) ELSE IntOf(body))) ELSE Raise("ValueError")

\* float(x): a number, or the exception raised
py_float(x) ==
    CASE x.t = "num" -> x
      [] x.t = "str" -> float_str(x.s)
      [] x.t = "nan" -> x
      [] OTHER -> Raise("TypeError")

\* int(x): a number, or the exception raised
py_int(x) ==
    CASE x.t = "num" -> Num(RTrunc(x.v))
      [] x.t = "str" -> int_str(x.s)
      [] x.t = "nan" -> Raise("ValueError")
      [] OTHER -> Raise("TypeError")

-----------------------------------------------------------------------------
(* Column labels *)

unit_categories == <<"0-4", "5-9", "10-17", "18-25", "26+">>
Cats == {unit_categories[i] : i \in 1..Len(unit_categories)}

appts_col(cat) == "(" \o cat \o ") Issued Appts"
close_col(cat) == "(" \o cat \o ") Overall Close %"
capture_col(cat) == "(" \o cat \o ") Units Captured on Sold Jobs %"

ApptsKeys == {"Issued Appts"} \cup {appts_col(c) : c \in Cats}
CloseKeys == {"Overall Close %"} \cup {close_col(c) : c \in Cats}
CaptureKeys == {"Units Captured on Sold Jobs %"} \cup {capture_col(c) : c \in Cats}
AllCols == {"Sales Rep"} \cup ApptsKeys \cup CloseKeys \cup CaptureKeys

\* key.endswith('Appts'), 'Close' in key, 'Capture' in key over the labels read
EndsWithAppts(k) == k \in ApptsKeys
HasClose(k) == k \in CloseKeys
HasCapture(k) == k \in CaptureKeys

Range(f) == {f[i] : i \in DOMAIN f}

\* row.get(key, default) on a row of a table with the given columns
row_get(columns, row, k, dflt) == IF k \in Range(columns) THEN row[k] ELSE dflt

Zero == Num(I(0))

-----------------------------------------------------------------------------
(* Value coercion of the converter: SalesDataConverter.safe_convert_numeric *)

\* mutant of no_value: the default is returned even for a percentage with default 0
no_value_keeps_default(p, dflt) == dflt

\* `None if is_percentage and default == 0 else default`
no_value(p, dflt) == IF p /\ dflt = Zero THEN None ELSE dflt

\* value.replace('%', '').replace(',', '').strip()
clean(s) == Strip(Remove(Remove(s, "%"), ","))

\* `if is_percentage and numeric_val <= 1.0: numeric_val *= 100`
rescale(numeric_val, p) ==
    IF p /\ numeric_val.t = "num" /\ RLe(numeric_val.v, I(1))
    THEN Num(RMul(numeric_val.v, I(100)))
    ELSE numeric_val

\* the except clause: ValueError and TypeError resolve to the no-value result,
\* anything else propagates
except_value_type(exc, p, dflt) ==
    IF exc.exc \in {"ValueError", "TypeError"} THEN no_value(p, dflt) ELSE exc

safe_convert_numeric(v, p, dflt) ==
    IF pd_isna(v) \/ StrEq(v, <<"-">>) \/ StrEq(v, <<>>) \/ v = None
    THEN no_value(p, dflt)
    ELSE LET cleaned == IF v.t = "str" THEN Str(clean(v.s)) ELSE v
         IN  IF v.t = "str" /\ (cleaned.s = <<>> \/ cleaned.s = <<"-">>)
             THEN no_value(p, dflt)
             ELSE LET numeric_val == py_float(cleaned)
                  IN  IF IsRaise(numeric_val)
                      THEN except_value_type(numeric_val, p, dflt)
                      ELSE rescale(numeric_val, p)

-----------------------------------------------------------------------------
(* Value coercion of the dashboard: convert_excel_to_sales_data.safe_get *)

\* `default if key.endswith('Appts') else None if 'Close' in key else default`
safe_get_fallback(k, dflt) ==
    IF EndsWithAppts(k) THEN dflt ELSE IF HasClose(k) THEN None ELSE dflt

\* `except (ValueError, TypeError)` around the conversion
safe_get_except(conv, k, dflt) == IF IsRaise(conv) THEN safe_get_fallback(k, dflt) ELSE conv

safe_get(columns, row, k, dflt) ==
    LET val == row_get(columns, row, k, dflt)
    IN  IF pd_isna(val) \/ StrEq(val, <<"-">>) \/ StrEq(val, <<>>)
        THEN safe_get_fallback(k, dflt)
        ELSE safe_get_except(IF HasClose(k) \/ HasCapture(k) THEN py_float(val) ELSE py_int(val),
                             k, dflt)

\* `x * 100 if x <= 1 else x` on what safe_get returned: comparing None with 1
\* raises TypeError
overall_rescale(x) ==
    IF x = None THEN Raise("TypeError")
    ELSE IF RLe(x.v, I(1)) THEN Num(RMul(x.v, I(100))) ELSE x

\* `safe_get(k, 0) * 100 if safe_get(k, 0) <= 1 else safe_get(k, 0)`
overall_rate(columns, row, k) == overall_rescale(safe_get(columns, row, k, Zero))

\* `if x is not None and x <= 1: x *= 100` on what safe_get returned
bucket_rescale(x) == IF x # None /\ RLe(x.v, I(1)) THEN Num(RMul(x.v, I(100))) ELSE x

\* `x = safe_get(k); if x is not None and x <= 1: x *= 100`
bucket_rate(columns, row, k) == bucket_rescale(safe_get(columns, row, k, Zero))

-----------------------------------------------------------------------------
(* Values of the variables a specification does not use *)

NoTable == [columns |-> <<>>, rows |-> <<>>]

CoerceIdle ==
    /\ value = None /\ is_percentage = FALSE /\ default = Zero
    /\ key = "Issued Appts" /\ conv_result = Pending /\ dash_result = Pending
ConvertIdle ==
    /\ df = NoTable /\ std_out = Pending /\ app_out = Pending /\ valid_out = Pending
ScoreIdle ==
    /\ rep = None /\ scored = Pending
DashIdle ==
    /\ sales_data = <<>> /\ ranked_reps = <<>> /\ leaders = <<>> /\ rankings = <<>>
    /\ page = "idle" /\ load_msg = "none"
FileIdle ==
    /\ xl = NoTable
    /\ format_type = "pending" /\ column_mapping = Pending
    /\ file_out = Pending /\ cli = Pending

-----------------------------------------------------------------------------
(* SpecCoerce: one raw cell coerced by the converter and by the dashboard *)

RawNumbers == {I(0), R(35, 100), I(1), R(105, 100), R(27, 10), I(42), I(-3)}
RawCells == {NaN, None} \cup {Str(s) : s \in StrsUpTo(MaxLen)} \cup {Num(r) : r \in RawNumbers}
Defaults == {Zero, Num(I(7)), None}

\* the labels the dashboard reads a percentage / a count under
RateKeys == {"Overall Close %", "Units Captured on Sold Jobs %", close_col("0-4"), capture_col("0-4")}
CountKeys == {"Issued Appts", appts_col("0-4")}

\* the dashboard's coercion of cell v read under label k (default 0 throughout)
dash_coerce(k, v) ==
    LET columns == <<k>>
        row == (k :> v)
    IN  CASE k \in {"Overall Close %", "Units Captured on Sold Jobs %"} -> overall_rate(columns, row, k)
          [] k \in (CloseKeys \cup CaptureKeys) \ {"Overall Close %", "Units Captured on Sold Jobs %"} ->
                bucket_rate(columns, row, k)
          [] OTHER -> safe_get(columns, row, k, Zero)

CoerceInit ==
    /\ value \in RawCells
    /\ is_percentage \in BOOLEAN
    /\ default \in Defaults
    /\ key \in IF default # Zero THEN {"Issued Appts"}
               ELSE IF is_percentage THEN RateKeys ELSE CountKeys
    /\ conv_result = Pending
    /\ dash_result = Pending
    /\ ConvertIdle /\ ScoreIdle /\ DashIdle /\ FileIdle

\* self.safe_convert_numeric(value, is_percentage, default)
Coerce ==
    /\ conv_result = Pending
    /\ conv_result' = safe_convert_numeric(value, is_percentage, default)
    /\ UNCHANGED <<value, is_percentage, default, key, dash_result>>
    /\ UNCHANGED <<convert_vars, score_vars, dash_vars, file_vars>>

\* the dashboard reading the same cell (it always passes default 0)
DashCoerce ==
    /\ dash_result = Pending
    /\ default = Zero
    /\ dash_result' = dash_coerce(key, value)
    /\ UNCHANGED <<value, is_percentage, default, key, conv_result>>
    /\ UNCHANGED <<convert_vars, score_vars, dash_vars, file_vars>>

CoerceNext == Coerce \/ DashCoerce

SpecCoerce == CoerceInit /\ [][CoerceNext]_vars

-----------------------------------------------------------------------------
(* Claims about value coercion *)

\* the cell's text after removing '%' and ',' and the surrounding whitespace
CleanedText(s) == Strip(SelectSeq(s, LAMBDA c : c \notin {"%", ","}))

\* the cell carries no value: NaN, None, "", "-", or text that cleans to "" or "-"
NoValueCell(v) ==
    \/ v \in {NaN, None}
    \/ v.t = "str" /\ CleanedText(v.s) \in {<<>>, <<"-">>}

\* the number the cell parses to (after cleaning, for text), or None
ParsedNumber(v) ==
    CASE v.t = "num" -> v
      [] v.t = "str" /\ ~NoValueCell(v) /\ ~IsRaise(float_str(CleanedText(v.s))) ->
            float_str(CleanedText(v.s))
      [] OTHER -> None

\* m rescaled as a percentage: 100*m when m <= 1.0, m when m > 1.0
Rescaled(m) == IF RLe(m.v, I(1)) THEN Num(RMul(m.v, I(100))) ELSE m

\* C6 (as claimed): every percentage coercion of a cell that parses to m yields
\* 100*m when m <= 1.0 and m otherwise, in the converter and in the dashboard
\* alike; a non-percentage coercion is never rescaled.
C6_RescaleLaw ==
    LET m == ParsedNumber(value)
    IN  m # None =>
          /\ conv_result # Pending =>
                conv_result = IF is_percentage THEN Rescaled(m) ELSE m
          /\ (dash_result # Pending /\ key \in RateKeys) => dash_result = Rescaled(m)
          /\ (dash_result # Pending /\ key \in CountKeys /\ m # Zero) =>
                dash_result # Num(RMul(m.v, I(100)))

\* the converter's half of C6 alone
C6_ConverterRescale ==
    LET m == ParsedNumber(value)
    IN  (m # None /\ conv_result # Pending) =>
            conv_result = IF is_percentage THEN Rescaled(m) ELSE m

\* C7: safe_convert_numeric never raises, and a no-value or unparsable cell
\* yields None when is_percentage and default == 0, and default otherwise.
C7_CoercionTotal ==
    conv_result # Pending =>
        /\ ~IsRaise(conv_result)
        /\ ParsedNumber(value) = None =>
              conv_result = IF is_percentage /\ default = Zero THEN None ELSE default

\* an unparsable text cell coerced as a percentage with default 0 came out absent
C7_Witness ==
    /\ value = Str(<<"4", "x">>) /\ is_percentage /\ default = Zero
    /\ conv_result = None

-----------------------------------------------------------------------------
(* Record normalizer of the converter: SalesDataConverter.process_standard_format *)

DigitChars == <<"0", "1", "2", "3", "4", "5", "6", "7", "8", "9">>

\* str(i) of an int i >= 0
RECURSIVE IntStr(_)
IntStr(i) == IF i < 10 THEN <<DigitChars[i + 1]>> ELSE IntStr(i \div 10) \o <<DigitChars[(i % 10) + 1]>>

\* str(x) of a name cell (text, NaN or None)
py_str(x) ==
    CASE x.t = "str" -> x.s
      [] x.t = "nan" -> <<"n", "a", "n">>
      [] x.t = "None" -> <<"N", "o", "n", "e">>

Ok(data) == [t |-> "ok", data |-> data]

\* one bucket of rep_data['categories']
std_category(columns, row, cat) ==
    [appointments |-> safe_convert_numeric(row_get(columns, row, appts_col(cat), Zero), FALSE, Zero),
     closeRate |-> safe_convert_numeric(row_get(columns, row, close_col(cat), None), TRUE, Zero),
     captureRate |-> safe_convert_numeric(row_get(columns, row, capture_col(cat), None), TRUE, Zero)]

\* mutant of std_rep_data: the appointment total is coerced as a percentage
std_rep_data_appts_as_rate(columns, row, rep_name) ==
    [name |-> rep_name,
     totalAppts |-> safe_convert_numeric(row_get(columns, row, "Issued Appts", Zero), TRUE, Zero),
     overallClose |-> safe_convert_numeric(row_get(columns, row, "Overall Close %", Zero), TRUE, Zero),
     overallCapture |-> safe_convert_numeric(
                            row_get(columns, row, "Units Captured on Sold Jobs %", Zero), TRUE, Zero),
     categories |-> [cat \in Cats |-> std_category(columns, row, cat)]]

\* the rep_data dict built in the try block
std_rep_data(columns, row, rep_name) ==
    [name |-> rep_name,
     totalAppts |-> safe_convert_numeric(row_get(columns, row, "Issued Appts", Zero), FALSE, Zero),
     overallClose |-> safe_convert_numeric(row_get(columns, row, "Overall Close %", Zero), TRUE, Zero),
     overallCapture |-> safe_convert_numeric(
                            row_get(columns, row, "Units Captured on Sold Jobs %", Zero), TRUE, Zero),
     categories |-> [cat \in Cats |-> std_category(columns, row, cat)]]

\* whether building the record raised: some coercion of the row raised
rep_data_raised(r) ==
    \/ \E f \in {r.totalAppts, r.overallClose, r.overallCapture} : IsRaise(f)
    \/ \E cat \in Cats : \E f \in {r.categories[cat].appointments, r.categories[cat].closeRate,
                                   r.categories[cat].captureRate} : IsRaise(f)

\* one iteration of `for idx, row in df.iterrows()`: the records to append
\* (none when the row is skipped by `continue` or by the except clause)
std_row(columns, row, idx) ==
    LET rep_name == Strip(py_str(row_get(columns, row, "Sales Rep", Str(<<"R", "e", "p", "_">> \o IntStr(idx)))))
        rep_data == std_rep_data(columns, row, rep_name)
    IN  IF rep_name = <<>> \/ Lower(rep_name) = <<"n", "a", "n">> THEN <<>>
        ELSE IF rep_data_raised(rep_data) THEN <<>>
        ELSE <<rep_data>>

RECURSIVE std_rows(_, _, _)
std_rows(columns, rows, n) ==
    IF n = 0 THEN <<>>
    ELSE std_rows(columns, rows, n - 1) \o std_row(columns, rows[n], n - 1)

process_standard_format(table) == Ok(std_rows(table.columns, table.rows, Len(table.rows)))

-----------------------------------------------------------------------------
(* Record normalizer of the dashboard: convert_excel_to_sales_data *)

app_category(columns, row, cat) ==
    [appointments |-> safe_get(columns, row, appts_col(cat), Zero),
     closeRate |-> bucket_rate(columns, row, close_col(cat)),
     captureRate |-> bucket_rate(columns, row, capture_col(cat))]

app_rep_data(columns, row) ==
    [name |-> py_str(row_get(columns, row, "Sales Rep", Str(<<"U", "n", "k", "n", "o", "w", "n">>))),
     totalAppts |-> safe_get(columns, row, "Issued Appts", Zero),
     overallClose |-> overall_rate(columns, row, "Overall Close %"),
     overallCapture |-> overall_rate(columns, row, "Units Captured on Sold Jobs %"),
     categories |-> [cat \in Cats |-> app_category(columns, row, cat)]]

\* sales_data.append(rep_data) after the rows before; the loop has no try
\* block: the first row whose record raises ends the call
app_append(before, rep_data) ==
    IF IsRaise(before) THEN before
    ELSE IF IsRaise(rep_data.overallClose) THEN rep_data.overallClose
    ELSE IF IsRaise(rep_data.overallCapture) THEN rep_data.overallCapture
    ELSE Ok(Append(before.data, rep_data))

\* `for _, row in df.iterrows()` over the first n rows
RECURSIVE app_rows(_, _, _)
app_rows(columns, rows, n) ==
    IF n = 0 THEN Ok(<<>>)
    ELSE app_append(app_rows(columns, rows, n - 1), app_rep_data(columns, rows[n]))

convert_excel_to_sales_data(table) == app_rows(table.columns, table.rows, Len(table.rows))

-----------------------------------------------------------------------------
(* Validator: SalesDataConverter.validate_data *)

RECURSIVE SumAppts(_)
SumAppts(sd) == IF sd = <<>> THEN I(0) ELSE RAdd(sd[1].totalAppts.v, SumAppts(Tail(sd)))

\* `x > 0` raises TypeError when x is None
gt_zero_raises(x) == ~IsNum(x)

validate_data(sd) ==
    IF sd = <<>> THEN Raise("ValueError: No valid sales data found")
    ELSE IF \E i \in 1..Len(sd) : gt_zero_raises(sd[i].totalAppts) THEN Raise("TypeError")
    ELSE IF \E i \in 1..Len(sd) : \E cat \in Cats : gt_zero_raises(sd[i].categories[cat].appointments)
         THEN Raise("TypeError")
    ELSE [t |-> "stats",
          total_reps |-> Len(sd),
          reps_with_appointments |-> Cardinality({i \in 1..Len(sd) : RLt(I(0), sd[i].totalAppts.v)}),
          avg_appointments |-> RDiv(SumAppts(sd), I(Len(sd))),
          categories_with_data |->
              [cat \in Cats |-> Cardinality({i \in 1..Len(sd) :
                    /\ RLt(I(0), sd[i].categories[cat].appointments.v)
                    /\ sd[i].categories[cat].closeRate # None})]]

-----------------------------------------------------------------------------
(* SpecConvert: one input table normalized by both entry points, the         *)
(* converter's records then validated                                        *)

\* the standard layout's columns, in sheet order
RECURSIVE CategoryCols(_)
CategoryCols(n) ==
    IF n = 0 THEN <<>>
    ELSE CategoryCols(n - 1) \o <<appts_col(unit_categories[n]), close_col(unit_categories[n]),
                                  capture_col(unit_categories[n])>>

StandardCols ==
    <<"Sales Rep", "Issued Appts", "Overall Close %", "Units Captured on Sold Jobs %">>
        \o CategoryCols(Len(unit_categories))

Without(cols, gone) == SelectSeq(cols, LAMBDA c : c \notin gone)

\* the column sets of the input tables: the full layout, and layouts lacking
\* a bucket's rate columns, the overall close rate, or the name
ColumnChoices ==
    {StandardCols,
     Without(StandardCols, {close_col("0-4"), capture_col("0-4")}),
     Without(StandardCols, {"Overall Close %"}),
     Without(StandardCols, {"Sales Rep"})}

\* a fully numeric row
BaseRow ==
    [c \in Range(StandardCols) |->
        CASE c = "Sales Rep" -> Str(<<"A", "l">>)
          [] c = "Issued Appts" -> Num(I(25))
          [] c = "Overall Close %" -> Num(R(35, 100))
          [] c = "Units Captured on Sold Jobs %" -> Num(R(105, 100))
          [] c \in ApptsKeys -> Num(I(4))
          [] c \in CloseKeys -> Num(R(1, 2))
          [] OTHER -> Num(R(9, 10))]

\* the cells that replace one cell of the numeric row
CellOverrides ==
    {<<"Sales Rep", Str(<<>>)>>, <<"Sales Rep", Str(<<" ">>)>>, <<"Sales Rep", NaN>>,
     <<"Issued Appts", NaN>>,
     <<"Overall Close %", NaN>>, <<"Overall Close %", Str(<<"x">>)>>,
     <<"Overall Close %", Str(<<"4", "2", "%">>)>>,
     <<"Units Captured on Sold Jobs %", NaN>>,
     <<appts_col("0-4"), NaN>>,
     <<close_col("0-4"), NaN>>, <<close_col("0-4"), Str(<<"-">>)>>,
     <<capture_col("0-4"), NaN>>, <<capture_col("0-4"), Str(<<>>)>>,
     <<capture_col("0-4"), Str(<<"4", "2", "%">>)>>,
     <<close_col("26+"), Str(<<>>)>>}

FullRows == {BaseRow} \cup {[BaseRow EXCEPT ![o[1]] = o[2]] : o \in CellOverrides}

Restrict(row, cols) == [c \in Range(cols) |-> row[c]]

RECURSIVE RowSeqs(_, _)
RowSeqs(rows, k) ==
    IF k = 0 THEN {<<>>}
    ELSE LET shorter == RowSeqs(rows, k - 1)
         IN  shorter \cup {Append(q, r) : q \in {u \in shorter : Len(u) = k - 1}, r \in rows}

Tables ==
    {[columns |-> cols, rows |-> rs] :
        cols \in ColumnChoices, rs \in RowSeqs(FullRows, MaxRows)}

ConvertInit ==
    /\ \E t \in Tables :
          df = [columns |-> t.columns,
                rows |-> [i \in 1..Len(t.rows) |-> Restrict(t.rows[i], t.columns)]]
    /\ std_out = Pending
    /\ app_out = Pending
    /\ valid_out = Pending
    /\ CoerceIdle /\ ScoreIdle /\ DashIdle /\ FileIdle

\* converter.process_standard_format(df)
ProcessStandardFormat ==
    /\ std_out = Pending
    /\ std_out' = process_standard_format(df)
    /\ UNCHANGED <<df, app_out, valid_out>>
    /\ UNCHANGED <<coerce_vars, score_vars, dash_vars, file_vars>>

\* convert_excel_to_sales_data(df)
ConvertExcelToSalesData ==
    /\ app_out = Pending
    /\ app_out' = convert_excel_to_sales_data(df)
    /\ UNCHANGED <<df, std_out, valid_out>>
    /\ UNCHANGED <<coerce_vars, score_vars, dash_vars, file_vars>>

\* converter.validate_data(sales_data) on the records just normalized
ValidateData ==
    /\ std_out # Pending
    /\ valid_out = Pending
    /\ valid_out' = validate_data(std_out.data)
    /\ UNCHANGED <<df, std_out, app_out>>
    /\ UNCHANGED <<coerce_vars, score_vars, dash_vars, file_vars>>

ConvertNext == ProcessStandardFormat \/ ConvertExcelToSalesData \/ ValidateData

SpecConvert == ConvertInit /\ [][ConvertNext]_vars

-----------------------------------------------------------------------------
(* Claims about normalization and validation *)

Outcomes == {std_out, app_out}

\* a name cell that is empty, whitespace-only, or the missing-value marker
BlankNameCell(v) == v = NaN \/ (v.t = "str" /\ \A i \in 1..Len(v.s) : v.s[i] = " ")

\* the text of an emitted name is blank or spells the missing-value marker
BlankNameText(s) == (\A i \in 1..Len(s) : s[i] = " ") \/ s = <<"n", "a", "n">>

HasCol(c) == c \in Range(df.columns)

\* the input rows that are to be retained, in order
KeptRows ==
    SelectSeq([i \in 1..Len(df.rows) |-> i],
              LAMBDA i : ~(HasCol("Sales Rep") /\ BlankNameCell(df.rows[i]["Sales Rep"])))

\* the input row each emitted record stems from (output order is input order)
SourceRows(out) ==
    IF Len(out.data) = Len(df.rows) THEN [i \in 1..Len(df.rows) |-> i] ELSE KeptRows

\* the cell of row i under label c carries no value
NoValueAt(i, c) ==
    \/ ~HasCol(c)
    \/ df.rows[i][c] \in {NaN, None, Str(<<>>), Str(<<"-">>)}

\* C1 (as claimed): in both entry points a row with a blank name cell is never
\* emitted, and no more records are emitted than there are input rows.
C1_RowSkipLaw ==
    \A out \in Outcomes :
        out.t = "ok" =>
            /\ Len(out.data) <= Len(df.rows)
            /\ Len(out.data) <= Len(KeptRows)
            /\ \A j \in 1..Len(out.data) : ~BlankNameText(out.data[j].name)

\* C2 (as claimed): in both entry points a bucket rate cell with no value is
\* emitted as None, never 0; only a bucket appointment count defaults to 0.
C2_AbsentPreserved ==
    \A out \in Outcomes :
        out.t = "ok" =>
            \A j \in 1..Len(out.data) : \A cat \in Cats :
                LET i == SourceRows(out)[j]
                    b == out.data[j].categories[cat]
                IN  /\ NoValueAt(i, close_col(cat)) => b.closeRate = None
                    /\ NoValueAt(i, capture_col(cat)) => b.captureRate = None
                    /\ NoValueAt(i, appts_col(cat)) => b.appointments = Zero

\* a retained row all of whose cells are numbers
CleanRow(i) ==
    /\ ~(HasCol("Sales Rep") /\ BlankNameCell(df.rows[i]["Sales Rep"]))
    /\ \A c \in Range(df.columns) \ {"Sales Rep"} : IsNum(df.rows[i][c])

\* C3 (as claimed): neither entry point aborts the batch, whatever the cells
\* of a row are, and every valid row is emitted.
C3_BatchResilience ==
    \A out \in Outcomes :
        out # Pending =>
            /\ out.t = "ok"
            /\ Len(out.data) >= Cardinality({i \in 1..Len(df.rows) : CleanRow(i)})

\* the converter's half of C1, C2 and C3 alone
ConverterNormalizes ==
    std_out # Pending =>
        /\ std_out.t = "ok"
        /\ Len(std_out.data) = Len(KeptRows)
        /\ \A j \in 1..Len(std_out.data) : \A cat \in Cats :
              LET b == std_out.data[j].categories[cat]
              IN  /\ ~BlankNameText(std_out.data[j].name)
                  /\ NoValueAt(KeptRows[j], close_col(cat)) => b.closeRate = None
                  /\ NoValueAt(KeptRows[j], capture_col(cat)) => b.captureRate = None
                  /\ NoValueAt(KeptRows[j], appts_col(cat)) => b.appointments = Zero

\* C5: validate_data fails with the empty-dataset error on an empty record
\* list, and returns statistics on every non-empty list the normalizer emits.
C5_ValidatorEmptiness ==
    valid_out # Pending =>
        IF std_out.data = <<>>
        THEN valid_out = Raise("ValueError: No valid sales data found")
        ELSE valid_out.t = "stats" /\ valid_out.total_reps = Len(std_out.data)

\* two records validated, one of them from a row whose appointment count was blank
C5_Witness ==
    /\ valid_out.t = "stats"
    /\ valid_out.total_reps = 2
    /\ valid_out.reps_with_appointments = 1
    /\ \E i \in 1..Len(df.rows) : HasCol("Issued Appts") /\ df.rows[i]["Issued Appts"] = NaN

-----------------------------------------------------------------------------
(* Scoring engine: calculate_performance_score *)

\* `x or 0`
or_zero(x) == IF x = None \/ x = Zero THEN Zero ELSE x

\* mutant of score_valid: the leaderboard's threshold of 3 appointments
score_valid_three(cat_data) ==
    /\ RLe(I(3), cat_data.appointments.v)
    /\ cat_data.closeRate # None
    /\ RLt(I(0), cat_data.closeRate.v)

\* appointments >= 2 and closeRate is not None and closeRate > 0
score_valid(cat_data) ==
    /\ RLe(I(2), cat_data.appointments.v)
    /\ cat_data.closeRate # None
    /\ RLt(I(0), cat_data.closeRate.v)

\* valid_categories after the first n buckets of unit_categories
RECURSIVE valid_categories(_, _)
valid_categories(r, n) ==
    IF n = 0 THEN <<>>
    ELSE LET cat_data == r.categories[unit_categories[n]]
             before == valid_categories(r, n - 1)
         IN  IF score_valid(cat_data)
             THEN Append(before, [appointments |-> cat_data.appointments,
                                  closeRate |-> cat_data.closeRate,
                                  captureRate |-> or_zero(cat_data.captureRate)])
             ELSE before

\* the three running totals after the first n valid categories
RECURSIVE weighted_totals(_, _)
weighted_totals(valid, n) ==
    IF n = 0 THEN [close |-> I(0), capture |-> I(0), weight |-> I(0)]
    ELSE LET t == weighted_totals(valid, n - 1)
             weight == valid[n].appointments.v
         IN  [close |-> RAdd(t.close, RMul(valid[n].closeRate.v, weight)),
              capture |-> RAdd(t.capture, RMul(valid[n].captureRate.v, weight)),
              weight |-> RAdd(t.weight, weight)]

\* `total / total_weight if total_weight > 0 else 0`
weighted_average(total, total_weight) ==
    IF RLt(I(0), total_weight) THEN RDiv(total, total_weight) ELSE I(0)

\* mutant of normalized_capture: no cap
normalized_capture_uncapped(avg_category_capture) == avg_category_capture

\* min(avg_category_capture, 150)
normalized_capture(avg_category_capture) == RMin(avg_category_capture, I(150))

\* overallClose * 0.50 + avg_category_close * 0.15 + normalized_capture * 0.35
weighted_score(overallClose, avg_category_close, norm_capture) ==
    RAdd(RAdd(RMul(overallClose, R(50, 100)), RMul(avg_category_close, R(15, 100))),
         RMul(norm_capture, R(35, 100)))

calculate_performance_score(r) ==
    LET valid == valid_categories(r, Len(unit_categories))
        t == weighted_totals(valid, Len(valid))
        avg_category_close == weighted_average(t.close, t.weight)
        avg_category_capture == weighted_average(t.capture, t.weight)
    IN  IF ~IsNum(r.overallClose) THEN Raise("TypeError")
        ELSE [t |-> "scored",
              name |-> r.name,
              score |-> Num(weighted_score(r.overallClose.v, avg_category_close,
                                           normalized_capture(avg_category_capture))),
              overallClose |-> r.overallClose,
              avgCategoryClose |-> Num(avg_category_close),
              avgCategoryCapture |-> Num(avg_category_capture),
              totalAppts |-> r.totalAppts,
              validCategories |-> Len(valid),
              rawData |-> r]

-----------------------------------------------------------------------------
(* SpecScore: one record scored *)

Bucket(a, c, k) == [appointments |-> a, closeRate |-> c, captureRate |-> k]

\* the bucket metrics the scored records are made of
BucketProfiles ==
    {Bucket(Num(I(10)), Num(I(40)), Num(I(100))),
     Bucket(Num(I(1)), Num(I(50)), Num(I(100))),
     Bucket(Num(I(2)), Num(I(20)), None),
     Bucket(Num(I(3)), Zero, Num(I(120))),
     Bucket(Num(I(4)), Num(I(100)), Num(I(300))),
     Bucket(Zero, None, None)}

ScoreReps ==
    {[name |-> <<"A", "l">>, totalAppts |-> Num(I(25)), overallClose |-> Num(I(oc)),
      overallCapture |-> Num(I(98)), categories |-> cs] :
        oc \in {0, 40, 100}, cs \in [Cats -> BucketProfiles]}

ScoreInit ==
    /\ rep \in ScoreReps
    /\ scored = Pending
    /\ CoerceIdle /\ ConvertIdle /\ DashIdle /\ FileIdle

\* calculate_performance_score(rep)
Score ==
    /\ scored = Pending
    /\ scored' = calculate_performance_score(rep)
    /\ UNCHANGED rep
    /\ UNCHANGED <<coerce_vars, convert_vars, dash_vars, file_vars>>

ScoreNext == Score

SpecScore == ScoreInit /\ [][ScoreNext]_vars

-----------------------------------------------------------------------------
(* Claims about the score *)

\* the buckets that count for the score
ValidBuckets(r) ==
    {cat \in Cats : /\ r.categories[cat].appointments.v.n >= 2 * r.categories[cat].appointments.v.d
                    /\ r.categories[cat].closeRate # None
                    /\ r.categories[cat].closeRate.v.n > 0}

\* the sum of f[x] over x in S
RECURSIVE SumOver(_, _)
SumOver(S, f) ==
    IF S = {} THEN I(0)
    ELSE LET x == CHOOSE y \in S : TRUE IN RAdd(f[x], SumOver(S \ {x}, f))

CaptureOrZero(r, cat) ==
    IF r.categories[cat].captureRate = None THEN I(0) ELSE r.categories[cat].captureRate.v

\* sum(closeRate_i * appointments_i) / sum(appointments_i) over the valid buckets
ExpectedAvgClose(r) ==
    LET V == ValidBuckets(r)
        W == [cat \in V |-> r.categories[cat].appointments.v]
        C == [cat \in V |-> RMul(r.categories[cat].closeRate.v, W[cat])]
    IN  IF V = {} THEN I(0) ELSE RDiv(SumOver(V, C), SumOver(V, W))

\* sum((captureRate_i or 0) * appointments_i) / sum(appointments_i)
ExpectedAvgCapture(r) ==
    LET V == ValidBuckets(r)
        W == [cat \in V |-> r.categories[cat].appointments.v]
        K == [cat \in V |-> RMul(CaptureOrZero(r, cat), W[cat])]
    IN  IF V = {} THEN I(0) ELSE RDiv(SumOver(V, K), SumOver(V, W))

ExpectedScore(r) ==
    LET cap == IF RLe(ExpectedAvgCapture(r), I(150)) THEN ExpectedAvgCapture(r) ELSE I(150)
    IN  R(50 * r.overallClose.v.n * ExpectedAvgClose(r).d * cap.d
            + 15 * ExpectedAvgClose(r).n * r.overallClose.v.d * cap.d
            + 35 * cap.n * r.overallClose.v.d * ExpectedAvgClose(r).d,
          100 * r.overallClose.v.d * ExpectedAvgClose(r).d * cap.d)

\* overallClose 40, five buckets of closeRate 40, captureRate 100, appointments 10
ExampleRep ==
    [name |-> <<"A", "l">>, totalAppts |-> Num(I(25)), overallClose |-> Num(I(40)),
     overallCapture |-> Num(I(98)),
     categories |-> [cat \in Cats |-> Bucket(Num(I(10)), Num(I(40)), Num(I(100)))]]

\* C8: the averages are the appointment-weighted averages over the valid
\* buckets (0 when there is none), validCategories counts them, and
\* score = overallClose*0.50 + avgCategoryClose*0.15 + min(avgCategoryCapture,150)*0.35;
\* the example record scores 61.
C8_ScoreFormula ==
    scored # Pending =>
        /\ scored.avgCategoryClose = Num(ExpectedAvgClose(rep))
        /\ scored.avgCategoryCapture = Num(ExpectedAvgCapture(rep))
        /\ scored.validCategories = Cardinality(ValidBuckets(rep))
        /\ scored.score = Num(ExpectedScore(rep))
        /\ rep = ExampleRep => scored.score = Num(I(61))

\* the example record has been scored 61 with all five buckets valid
C8_Witness ==
    /\ rep = ExampleRep
    /\ scored # Pending
    /\ scored.score = Num(I(61))
    /\ scored.validCategories = 5

\* the capture term of a score: (score - overallClose*0.50 - avgCategoryClose*0.15) / 0.35
CaptureTerm(sc) ==
    RDiv(RAdd(sc.score.v,
              RMul(I(-1), RAdd(RMul(sc.overallClose.v, R(1, 2)),
                               RMul(sc.avgCategoryClose.v, R(15, 100))))),
         R(35, 100))

RatesWithin100(r) ==
    /\ RLe(I(0), r.overallClose.v) /\ RLe(r.overallClose.v, I(100))
    /\ \A cat \in Cats : r.categories[cat].closeRate # None =>
            /\ RLe(I(0), r.categories[cat].closeRate.v)
            /\ RLe(r.categories[cat].closeRate.v, I(100))

\* C9: the capture term entering the score is at most 150, so with close
\* rates within [0,100] the score is at most 117.5; the reported
\* avgCategoryCapture is the uncapped average.
C9_CaptureCap ==
    scored # Pending =>
        /\ RLe(CaptureTerm(scored), I(150))
        /\ RatesWithin100(rep) => RLe(scored.score.v, R(1175, 10))
        /\ scored.avgCategoryCapture = Num(ExpectedAvgCapture(rep))

\* a record whose average capture exceeds 150 scored exactly 117.5
C9_Witness ==
    /\ scored # Pending
    /\ RLt(I(150), scored.avgCategoryCapture.v)
    /\ scored.score = Num(R(1175, 10))

-----------------------------------------------------------------------------
(* Dashboard script: session state, ranking, data loading, quick stats,     *)
(* category leaders                                                          *)

Rep(name, appts, close, capture, cats) ==
    [name |-> name, totalAppts |-> appts, overallClose |-> close, overallCapture |-> capture,
     categories |-> cats]

\* hundredths, as the sample data is written
H(x) == Num(R(x, 100))

\* the default sample data installed when the session has no sales_data
SampleData ==
    <<Rep(<<"G", "a", "b", "r", "i", "e", "l", " ", "G", "r", "i", "m", "m">>,
          Num(I(32)), H(3125), H(9420),
          [cat \in Cats |->
              CASE cat = "0-4" -> Bucket(Num(I(9)), H(2222), H(22254))
                [] cat = "5-9" -> Bucket(Num(I(2)), Zero, H(11978))
                [] cat = "10-17" -> Bucket(Num(I(10)), Num(I(30)), H(9743))
                [] cat = "18-25" -> Bucket(Num(I(6)), H(6667), H(10235))
                [] cat = "26+" -> Bucket(Num(I(5)), Num(I(20)), H(5278))]),
      Rep(<<"D", "e", "r", "e", "k", " ", "K", "i", "n", "g", "r", "y">>,
          Num(I(39)), H(3846), H(10717),
          [cat \in Cats |->
              CASE cat = "0-4" -> Bucket(Num(I(15)), Num(I(40)), H(13359))
                [] cat = "5-9" -> Bucket(Num(I(9)), H(4444), H(12289))
                [] cat = "10-17" -> Bucket(Num(I(8)), H(1250), H(10067))
                [] cat = "18-25" -> Bucket(Num(I(7)), H(5714), H(6667))
                [] cat = "26+" -> Bucket(Zero, None, None)]),
      Rep(<<"C", "r", "a", "i", "g", " ", "C", "h", "i", "s", "m", "a", "n">>,
          Num(I(29)), H(4483), Num(I(98)),
          [cat \in Cats |->
              CASE cat = "0-4" -> Bucket(Num(I(14)), Num(I(50)), Num(I(149)))
                [] cat = "5-9" -> Bucket(Num(I(7)), H(4286), Num(I(120)))
                [] cat = "10-17" -> Bucket(Num(I(5)), Num(I(40)), Num(I(71)))
                [] cat = "18-25" -> Bucket(Num(I(2)), Num(I(50)), Num(I(60)))
                [] cat = "26+" -> Bucket(Num(I(1)), Zero, None)])>>

\* sorted(..., key=score, reverse=True) is stable: x goes after every entry
\* scoring at least as much
RECURSIVE insert_ranked(_, _)
insert_ranked(sorted, x) ==
    IF sorted = <<>> THEN <<x>>
    ELSE IF RLe(x.score.v, Head(sorted).score.v) THEN <<Head(sorted)>> \o insert_ranked(Tail(sorted), x)
    ELSE <<x>> \o sorted

RECURSIVE sort_by_score(_, _)
sort_by_score(xs, n) == IF n = 0 THEN <<>> ELSE insert_ranked(sort_by_score(xs, n - 1), xs[n])

\* sorted([calculate_performance_score(rep) for rep in sales_data], key=score, reverse=True)
rank(sd) ==
    LET scores == [i \in 1..Len(sd) |-> calculate_performance_score(sd[i])]
    IN  IF \E i \in 1..Len(sd) : IsRaise(scores[i])
        THEN Raise("TypeError")
        ELSE Ok(sort_by_score(scores, Len(scores)))

\* appointments >= 3 and closeRate is not None and closeRate > 0
leader_eligible(cat_data) ==
    /\ RLe(I(3), cat_data.appointments.v)
    /\ cat_data.closeRate # None
    /\ RLt(I(0), cat_data.closeRate.v)

\* closeRate * 0.6 + min(captureRate or 0, 150) * 0.4
category_score(cat_data) ==
    RAdd(RMul(cat_data.closeRate.v, R(6, 10)),
         RMul(RMin(or_zero(cat_data.captureRate).v, I(150)), R(4, 10)))

\* category_reps of one bucket: (rep, category_score) of the eligible reps, in dataset order
RECURSIVE category_reps(_, _, _)
category_reps(sd, cat_key, n) ==
    IF n = 0 THEN <<>>
    ELSE LET cat_data == sd[n].categories[cat_key]
             before == category_reps(sd, cat_key, n - 1)
         IN  IF leader_eligible(cat_data)
             THEN Append(before, <<sd[n], category_score(cat_data)>>)
             ELSE before

\* mutant of max_by_score: the last pair of maximal score
RECURSIVE max_by_score_last(_, _)
max_by_score_last(pairs, n) ==
    IF n = 1 THEN pairs[1]
    ELSE LET best == max_by_score_last(pairs, n - 1)
         IN  IF RLe(best[2], pairs[n][2]) THEN pairs[n] ELSE best

\* max(pairs, key=lambda x: x[1]): the first pair of maximal score
RECURSIVE max_by_score(_, _)
max_by_score(pairs, n) ==
    IF n = 1 THEN pairs[1]
    ELSE LET best == max_by_score(pairs, n - 1)
         IN  IF RLt(best[2], pairs[n][2]) THEN pairs[n] ELSE best

\* category_leaders: the leader of each bucket, None where the dict has no entry
category_leaders(sd) ==
    [cat_key \in Cats |->
        LET reps == category_reps(sd, cat_key, Len(sd))
        IN  IF reps # <<>> THEN max_by_score(reps, Len(reps))[1] ELSE None]

\* a load that installs the new sales_data and keeps the ranking it had
rerank_stale(sd, ranked, reranked) ==
    [sales_data |-> sd, ranked |-> ranked, msg |-> IF IsRaise(reranked) THEN "error" ELSE "success"]

\* `ranked_reps = sorted(...)` of a load; an exception becomes the sidebar
\* error and leaves the sales_data already installed
rerank(sd, ranked, reranked) ==
    IF IsRaise(reranked) THEN [sales_data |-> sd, ranked |-> ranked, msg |-> "error"]
    ELSE [sales_data |-> sd, ranked |-> reranked.data, msg |-> "success"]

\* `st.session_state.sales_data = new_sales_data` of a load, then the re-rank;
\* an exception of the conversion becomes the sidebar error
install(sd, ranked, new_sales_data) ==
    IF IsRaise(new_sales_data) THEN [sales_data |-> sd, ranked |-> ranked, msg |-> "error"]
    ELSE rerank(new_sales_data.data, ranked, rank(new_sales_data.data))

\* the try block of a load: convert, install, re-rank
load_table(sd, ranked, table) == install(sd, ranked, convert_excel_to_sales_data(table))

\* quick stats: the averages divide by len(sales_data); the top performer's
\* first name is name.split()[0]
quick_stats(sd, ranked) ==
    IF sd = <<>> THEN "ZeroDivisionError"
    ELSE IF ranked # <<>> /\ Strip(ranked[1].name) = <<>> THEN "IndexError"
    ELSE "ok"

\* the leader cards format closeRate and captureRate of each leader
leader_cards(ls) ==
    IF \E cat \in Cats : ls[cat] # None /\ ls[cat].categories[cat].captureRate = None
    THEN "TypeError" ELSE "ok"

\* how the page ends, given the outcome of the quick stats and the leaders
page_end(loaded, stats, ls) ==
    [sales_data |-> loaded.sales_data, ranked |-> loaded.ranked, msg |-> loaded.msg,
     page |-> IF stats # "ok" THEN stats
              ELSE IF leader_cards(ls) # "ok" THEN leader_cards(ls)
              ELSE "rendered",
     leaders |-> IF stats # "ok" THEN <<>> ELSE ls]

\* cat_data['appointments'] >= 2 and closeRate is not None and closeRate > 0,
\* with 3 for 2
ranking_eligible_three(cat_data) ==
    /\ RLe(I(3), cat_data.appointments.v)
    /\ cat_data.closeRate # None
    /\ RLt(I(0), cat_data.closeRate.v)

\* cat_data['appointments'] >= 2 and closeRate is not None and closeRate > 0
ranking_eligible(cat_data) ==
    /\ RLe(I(2), cat_data.appointments.v)
    /\ cat_data.closeRate # None
    /\ RLt(I(0), cat_data.closeRate.v)

\* category_reps.append({...}) for an eligible rep; the formatted 'Close Rate'
\* and 'Capture Rate' texts are display only and left out of the row
ranking_append(before, r, cat_data) ==
    IF ranking_eligible(cat_data)
    THEN Append(before, [Rank |-> Len(before) + 1, name |-> r.name,
                         Appointments |-> cat_data.appointments,
                         Score |-> category_score(cat_data)])
    ELSE before

\* category_reps of one detailed ranking, in dataset order
RECURSIVE ranking_rows(_, _, _)
ranking_rows(sd, cat_key, n) ==
    IF n = 0 THEN <<>>
    ELSE ranking_append(ranking_rows(sd, cat_key, n - 1), sd[n], sd[n].categories[cat_key])

\* sorted(category_reps, key=lambda x: x['Score'], reverse=True) is stable: a
\* row goes after the rows of equal Score that precede it
RECURSIVE insert_by_score(_, _)
insert_by_score(sorted, x) ==
    IF sorted = <<>> THEN <<x>>
    ELSE IF RLe(x.Score, Head(sorted).Score) THEN <<Head(sorted)>> \o insert_by_score(Tail(sorted), x)
    ELSE <<x>> \o sorted

RECURSIVE sorted_by_score(_, _)
sorted_by_score(rows, n) ==
    IF n = 0 THEN <<>> ELSE insert_by_score(sorted_by_score(rows, n - 1), rows[n])

\* the slice [:10] of the sorted rows
ranking_limit == 10

first_rows(rows) == IF Len(rows) <= ranking_limit THEN rows ELSE SubSeq(rows, 1, ranking_limit)

\* df_cat['Rank'] = range(1, len(df_cat) + 1)
RECURSIVE rank_rows(_, _)
rank_rows(rows, n) ==
    IF n = 0 THEN <<>>
    ELSE Append(rank_rows(rows, n - 1), [rows[n] EXCEPT !.Rank = n])

\* df_cat of one bucket, before the Score column is dropped for display; the
\* empty sequence where st.info reports no rep with sufficient data
ranked_rows(sorted) == rank_rows(first_rows(sorted), Len(first_rows(sorted)))

df_cat(rows) == IF rows = <<>> THEN <<>> ELSE ranked_rows(sorted_by_score(rows, Len(rows)))

\* f"{cat_data['captureRate']:.0f}%" raises TypeError on None
ranking_format_fails(sd) ==
    \E cat_key \in Cats, i \in 1..Len(sd) :
        /\ ranking_eligible(sd[i].categories[cat_key])
        /\ sd[i].categories[cat_key].captureRate = None

\* the detailed ranking tables of the five buckets
detailed_rankings(sd) ==
    IF ranking_format_fails(sd) THEN Raise("TypeError")
    ELSE Ok([cat_key \in Cats |-> df_cat(ranking_rows(sd, cat_key, Len(sd)))])

\* how the page ends after the leader cards: with the ranking tables, or with
\* the exception of their rows
rankings_end(out, tables) ==
    [sales_data |-> out.sales_data, ranked |-> out.ranked, msg |-> out.msg,
     page |-> IF out.page = "rendered" /\ IsRaise(tables) THEN tables.exc ELSE out.page,
     leaders |-> out.leaders,
     rankings |-> IF out.page = "rendered" /\ ~IsRaise(tables) THEN tables.data ELSE <<>>]

\* the rest of the script after the data source has been handled
render(loaded) ==
    rankings_end(page_end(loaded, quick_stats(loaded.sales_data, loaded.ranked),
                          category_leaders(loaded.sales_data)),
                 detailed_rankings(loaded.sales_data))

\* the sidebar's data source: a table to load, a file or sheet that could not
\* be read, or nothing to load
data_source(sd, ranked, source) ==
    CASE source.kind = "table" -> load_table(sd, ranked, source.table)
      [] source.kind = "unreadable" -> [sales_data |-> sd, ranked |-> ranked, msg |-> "error"]
      [] OTHER -> [sales_data |-> sd, ranked |-> ranked, msg |-> "none"]

\* the script after the module-level `ranked_reps = sorted(...)`, which is
\* outside any try block
ranked_run(sd, source, ranked0) ==
    IF IsRaise(ranked0)
    THEN [sales_data |-> sd, ranked |-> <<>>, msg |-> "none", page |-> "TypeError", leaders |-> <<>>,
          rankings |-> <<>>]
    ELSE render(data_source(sd, ranked0.data, source))

\* one run of the script over session data sd; source is what the sidebar's
\* data source yields in this run
script_run(sd, source) == ranked_run(sd, source, rank(sd))

-----------------------------------------------------------------------------
(* SpecDash: a session of script runs, each with a data source *)

\* rows of the loaded tables: BaseRow with some cells replaced
AlRow ==
    ("Sales Rep" :> Str(<<"A", "l">>) @@ appts_col("0-4") :> Num(I(5))
        @@ close_col("0-4") :> Num(R(7, 10)) @@ capture_col("0-4") :> Num(R(7, 10))
        @@ appts_col("5-9") :> Num(I(2)) @@ close_col("5-9") :> Num(R(9, 10))
        @@ close_col("26+") :> NaN) @@ BaseRow
BoRow ==
    ("Sales Rep" :> Str(<<"B", "o">>) @@ appts_col("0-4") :> Num(I(3))
        @@ close_col("0-4") :> Num(R(85, 100)) @@ capture_col("0-4") :> Num(R(85, 100))
        @@ appts_col("5-9") :> Num(I(1))
        @@ close_col("26+") :> NaN) @@ BaseRow
CyRow ==
    ("Sales Rep" :> Str(<<"C", "y">>) @@ appts_col("0-4") :> Num(I(4))
        @@ close_col("0-4") :> Num(R(6, 10)) @@ capture_col("0-4") :> Num(R(6, 10))
        @@ "Overall Close %" :> Num(I(42))
        @@ close_col("26+") :> NaN) @@ BaseRow
DiRow ==
    ("Sales Rep" :> Str(<<"D", "i">>) @@ appts_col("0-4") :> Num(I(3))
        @@ close_col("0-4") :> Num(I(75)) @@ capture_col("0-4") :> Num(I(100))
        @@ capture_col("10-17") :> Num(I(300))
        @@ close_col("26+") :> NaN) @@ BaseRow
EdRow ==
    ("Sales Rep" :> Str(<<"E", "d">>) @@ "Overall Close %" :> NaN) @@ BaseRow

GuRow ==
    ("Sales Rep" :> Str(<<"G", "u">>) @@ appts_col("0-4") :> Num(I(2))
        @@ close_col("0-4") :> Num(R(95, 100)) @@ capture_col("0-4") :> Num(R(95, 100))
        @@ close_col("26+") :> NaN) @@ BaseRow
HyRow ==
    ("Sales Rep" :> Str(<<"H", "y">>) @@ appts_col("0-4") :> Num(I(6))
        @@ close_col("0-4") :> Zero @@ "Issued Appts" :> Num(I(8))
        @@ close_col("26+") :> NaN) @@ BaseRow

\* the rows of the workbook the uploaded files are cut from, in sheet order
Workbook == <<AlRow, BoRow, CyRow, DiRow, GuRow, HyRow>>

\* the sheets that keep at most k of the first n rows of the workbook, in order
RECURSIVE Sheets(_, _)
Sheets(n, k) ==
    IF n = 0 THEN {<<>>}
    ELSE LET without == Sheets(n - 1, k)
         IN  without \cup {Append(q, Workbook[n]) : q \in {u \in without : Len(u) < k}}

\* a workbook of twelve rows, each with two appointments or more and a close
\* rate above 0 in bucket 0-4
FullBook == SubSeq(Workbook, 1, 5) \o SubSeq(Workbook, 1, 5) \o SubSeq(Workbook, 1, 2)

\* what pd.read_excel yields for the uploaded file
UploadTables ==
    {[columns |-> StandardCols, rows |-> rs] :
        rs \in Sheets(Len(Workbook), MaxLoadRows) \cup {<<EdRow>>, <<AlRow, EdRow>>, FullBook}}

\* what worksheet.get_all_records() yields: blank cells are ''
SheetRow == ("Sales Rep" :> Str(<<"F", "y">>) @@ close_col("0-4") :> Str(<<>>)) @@ BaseRow
BlankCloseSheetRow == ("Overall Close %" :> Str(<<>>)) @@ SheetRow

SheetTables ==
    {[columns |-> StandardCols, rows |-> rs] :
        rs \in {<<>>, <<SheetRow>>, <<SheetRow, AlRow>>, <<SheetRow, BlankCloseSheetRow>>}}

\* the session after its first run
Started(out) ==
    /\ sales_data = out.sales_data
    /\ ranked_reps = out.ranked
    /\ leaders = out.leaders
    /\ rankings = out.rankings
    /\ page = out.page
    /\ load_msg = out.msg

DashInit ==
    /\ Started(script_run(SampleData, [kind |-> "current"]))
    /\ CoerceIdle /\ ConvertIdle /\ ScoreIdle /\ FileIdle

Ran(out) ==
    /\ sales_data' = out.sales_data
    /\ ranked_reps' = out.ranked
    /\ leaders' = out.leaders
    /\ rankings' = out.rankings
    /\ page' = out.page
    /\ load_msg' = out.msg
    /\ UNCHANGED <<coerce_vars, convert_vars, score_vars, file_vars>>

\* a run with "Current Data" or "Sample Data" selected: nothing is loaded
RunCurrentData == Ran(script_run(sales_data, [kind |-> "current"]))

\* a run with "Upload Excel File" selected and a file in the uploader
RunUploadExcel ==
    \E source \in {[kind |-> "unreadable"]} \cup {[kind |-> "table", table |-> t] : t \in UploadTables} :
        Ran(script_run(sales_data, source))

\* a run with "Google Sheets" selected, a URL given and the button pressed;
\* connect_to_google_sheets or load_data_from_google_sheets may return None
RunGoogleSheets ==
    \E source \in {[kind |-> "no_sheet"]} \cup {[kind |-> "table", table |-> t] : t \in SheetTables} :
        Ran(script_run(sales_data, source))

DashNext == RunCurrentData \/ RunUploadExcel \/ RunGoogleSheets

SpecDash == DashInit /\ [][DashNext]_vars

-----------------------------------------------------------------------------
(* Claims about the dashboard's dataset and its category leaders *)

\* C4 (as claimed): a load that leaves zero records fails and installs
\* nothing, so the dataset the dashboard averages over is never empty and the
\* quick stats never divide by zero.
C4_DatasetNeverEmpty == sales_data # <<>> /\ page # "ZeroDivisionError"

\* the positions of the reps eligible in bucket cat: appointments >= 3,
\* closeRate present and closeRate > 0
Eligible(cat) ==
    {i \in 1..Len(sales_data) :
        LET c == sales_data[i].categories[cat]
        IN  /\ c.appointments.v.n >= 3 * c.appointments.v.d
            /\ c.closeRate # None
            /\ c.closeRate.v.n > 0}

\* closeRate*0.6 + min(captureRate or 0, 150)*0.4 of the rep at position i
BucketScore(i, cat) ==
    LET c == sales_data[i].categories[cat]
        capture == IF c.captureRate = None THEN I(0) ELSE c.captureRate.v
        capped == IF capture.n > 150 * capture.d THEN I(150) ELSE capture
    IN  RAdd(RMul(c.closeRate.v, R(3, 5)), RMul(capped, R(2, 5)))

\* the positions of the eligible reps of maximal bucketScore
Best(cat) ==
    {i \in Eligible(cat) : \A j \in Eligible(cat) : RLe(BucketScore(j, cat), BucketScore(i, cat))}

\* three reps whose bucket 0-4 scores are 70, 85 and 60, all eligible
ThreeRepExample ==
    /\ Len(sales_data) = 3
    /\ Eligible("0-4") = {1, 2, 3}
    /\ BucketScore(1, "0-4") = I(70)
    /\ BucketScore(2, "0-4") = I(85)
    /\ BucketScore(3, "0-4") = I(60)

\* C10: in a run that computed the category leaders, each bucket has no
\* leader iff no rep is eligible in it, and otherwise its leader is the
\* earliest rep, in dataset order, among the eligible reps of maximal
\* bucketScore; reps scoring 70, 85, 60 in bucket 0-4 yield the one scoring 85.
C10_CategoryLeaders ==
    leaders # <<>> =>
        /\ \A cat \in Cats :
              IF Eligible(cat) = {} THEN leaders[cat] = None
              ELSE /\ leaders[cat] # None
                   /\ \E i \in Best(cat) :
                         /\ \A j \in Best(cat) : i <= j
                         /\ leaders[cat] = sales_data[i]
        /\ ThreeRepExample => leaders["0-4"] = sales_data[2]

\* a loaded dataset in which two eligible reps tie for the best score of
\* bucket 0-4 and the earlier one leads, while bucket 26+ has no leader
C10_Witness ==
    /\ page = "rendered"
    /\ Cardinality(Best("0-4")) = 2
    /\ \E i \in Best("0-4") : leaders["0-4"] = sales_data[i] /\ i + 1 \in Eligible("0-4")
    /\ leaders["26+"] = None

-----------------------------------------------------------------------------
(* Claims about the shape of the converter's records *)

\* C14 (as claimed): every record process_standard_format emits has
\* number-valued totalAppts, overallClose and overallCapture whatever the raw
\* cells were, exactly the five buckets as category keys, and
\* calculate_performance_score does not fail on it.
C14_RecordShape ==
    std_out # Pending =>
        \A i \in 1..Len(std_out.data) :
            /\ IsNum(std_out.data[i].totalAppts)
            /\ IsNum(std_out.data[i].overallClose)
            /\ IsNum(std_out.data[i].overallCapture)
            /\ DOMAIN std_out.data[i].categories = Cats
            /\ ~IsRaise(calculate_performance_score(std_out.data[i]))

\* the part of C14 the converter keeps: a number-valued appointment total and
\* exactly the five buckets in every emitted record
RecordKeysAndTotal ==
    std_out # Pending =>
        \A i \in 1..Len(std_out.data) :
            /\ IsNum(std_out.data[i].totalAppts)
            /\ DOMAIN std_out.data[i].categories = Cats

-----------------------------------------------------------------------------
(* Text of column labels: detect_column_format and process_custom_format    *)
(* test the labels of the raw table by substring                            *)

\* `sub in s`
Contains(s, sub) == \E i \in 0..(Len(s) - Len(sub)) : SubSeq(s, i + 1, i + Len(sub)) = sub

\* the text of each bucket of unit_categories
CatText(cat) ==
    CASE cat = "0-4" -> <<"0", "-", "4">>
      [] cat = "5-9" -> <<"5", "-", "9">>
      [] cat = "10-17" -> <<"1", "0", "-", "1", "7">>
      [] cat = "18-25" -> <<"1", "8", "-", "2", "5">>
      [] cat = "26+" -> <<"2", "6", "+">>

\* f'({cat}) Issued Appts', f'({cat}) Overall Close %',
\* f'({cat}) Units Captured on Sold Jobs %' as text
appts_text(cat) == <<"(">> \o CatText(cat) \o <<")", " ">> \o <<"I", "s", "s", "u", "e", "d", " ", "A", "p", "p", "t", "s">>
close_text(cat) == <<"(">> \o CatText(cat) \o <<")", " ">> \o <<"O", "v", "e", "r", "a", "l", "l", " ", "C", "l", "o", "s", "e", " ", "%">>
capture_text(cat) ==
    <<"(">> \o CatText(cat) \o <<")", " ">> \o <<"U", "n", "i", "t", "s", " ", "C", "a", "p", "t", "u", "r", "e", "d", " ", "o", "n", " ", "S", "o", "l", "d", " ", "J", "o", "b", "s", " ", "%">>

\* the text of a label the code names by a literal
label_text(k) ==
    IF k = "Sales Rep" THEN <<"S", "a", "l", "e", "s", " ", "R", "e", "p">>
    ELSE IF k = "Issued Appts" THEN <<"I", "s", "s", "u", "e", "d", " ", "A", "p", "p", "t", "s">>
    ELSE IF k = "Overall Close %" THEN <<"O", "v", "e", "r", "a", "l", "l", " ", "C", "l", "o", "s", "e", " ", "%">>
    ELSE IF k = "Units Captured on Sold Jobs %" THEN <<"U", "n", "i", "t", "s", " ", "C", "a", "p", "t", "u", "r", "e", "d", " ", "o", "n", " ", "S", "o", "l", "d", " ", "J", "o", "b", "s", " ", "%">>
    ELSE IF k \in ApptsKeys THEN appts_text(CHOOSE cat \in Cats : appts_col(cat) = k)
    ELSE IF k \in CloseKeys THEN close_text(CHOOSE cat \in Cats : close_col(cat) = k)
    ELSE capture_text(CHOOSE cat \in Cats : capture_col(cat) = k)

\* the raw table as process_standard_format reads it: row.get(<literal>)
\* finds the column whose label is the literal's text
literal_df(table) ==
    [columns |-> SelectSeq(StandardCols, LAMBDA k : label_text(k) \in Range(table.columns)),
     rows |-> [i \in 1..Len(table.rows) |->
                  [k \in {c \in Range(StandardCols) : label_text(c) \in Range(table.columns)} |->
                      table.rows[i][label_text(k)]]]]

-----------------------------------------------------------------------------
(* Format detector: SalesDataConverter.detect_column_format *)

\* mutant of category_pattern_found: any label naming appointments counts
category_pattern_found_any_appts(columns) ==
    \E j \in 1..Len(columns) : Contains(columns[j], <<"A", "p", "p", "t", "s">>)

\* any(f'({cat}) Issued Appts' in str(col) for col in columns for cat in self.unit_categories)
category_pattern_found(columns) ==
    \E j \in 1..Len(columns) : \E cat \in Cats : Contains(columns[j], appts_text(cat))

detect_column_format(table) ==
    IF category_pattern_found(table.columns) THEN "standard" ELSE "custom"

-----------------------------------------------------------------------------
(* Column mapper: SalesDataConverter.process_custom_format *)

\* the if/elif chain over col_lower: the canonical slot the label is mapped to
slot_of(col_lower) ==
    IF Contains(col_lower, <<"s", "a", "l", "e", "s", " ", "r", "e", "p">>) \/ Contains(col_lower, <<"r", "e", "p", " ", "n", "a", "m", "e">>)
          \/ Contains(col_lower, <<"n", "a", "m", "e">>)
    THEN "Sales Rep"
    ELSE IF Contains(col_lower, <<"t", "o", "t", "a", "l", " ", "a", "p", "p", "t">>) \/ Contains(col_lower, <<"i", "s", "s", "u", "e", "d", " ", "a", "p", "p", "t">>)
          \/ Contains(col_lower, <<"a", "p", "p", "o", "i", "n", "t", "m", "e", "n", "t", "s">>)
    THEN "Issued Appts"
    ELSE IF Contains(col_lower, <<"o", "v", "e", "r", "a", "l", "l", " ", "c", "l", "o", "s", "e">>) \/ Contains(col_lower, <<"c", "l", "o", "s", "e", " ", "r", "a", "t", "e">>)
          \/ Contains(col_lower, <<"c", "l", "o", "s", "e", " ", "%">>)
    THEN "Overall Close %"
    ELSE IF Contains(col_lower, <<"c", "a", "p", "t", "u", "r", "e">>)
          /\ (Contains(col_lower, <<"o", "v", "e", "r", "a", "l", "l">>) \/ Contains(col_lower, <<"t", "o", "t", "a", "l">>))
    THEN "Units Captured on Sold Jobs %"
    ELSE "none"

\* column_mapping[slot] = col: an assignment replaces what the slot held
map_assign(mapping, slot, col) ==
    IF slot = "none" THEN mapping
    ELSE [k \in DOMAIN mapping \cup {slot} |-> IF k = slot THEN col ELSE mapping[k]]

\* column_mapping after `for col in columns` over the first n labels
RECURSIVE map_columns(_, _)
map_columns(columns, n) ==
    IF n = 0 THEN <<>>
    ELSE map_assign(map_columns(columns, n - 1), slot_of(Lower(columns[n])), columns[n])

\* column_mapping.get(slot, slot)
mapping_get(mapping, slot) ==
    IF slot \in DOMAIN mapping THEN mapping[slot] ELSE label_text(slot)

\* the key a label sets for bucket cat in the inner loop, or "none"
bucket_key(cat, col_str) ==
    IF ~Contains(Remove(Remove(col_str, "-"), " "), Remove(CatText(cat), "-")) THEN "none"
    ELSE IF Contains(col_str, <<"a", "p", "p", "t">>) THEN appts_col(cat)
    ELSE IF Contains(col_str, <<"c", "l", "o", "s", "e">>) THEN close_col(cat)
    ELSE IF Contains(col_str, <<"c", "a", "p", "t", "u", "r", "e">>) THEN capture_col(cat)
    ELSE "none"

\* rep_data[key] = value: an assignment replaces what the key held
dict_assign(rep_data, k, v) ==
    IF k = "none" THEN rep_data
    ELSE [x \in DOMAIN rep_data \cup {k} |-> IF x = k THEN v ELSE rep_data[x]]

\* rep_data after `for col in columns` over the first n labels, for bucket cat
RECURSIVE custom_bucket(_, _, _, _, _)
custom_bucket(rep_data, columns, row, cat, n) ==
    IF n = 0 THEN rep_data
    ELSE dict_assign(custom_bucket(rep_data, columns, row, cat, n - 1),
                     bucket_key(cat, Lower(columns[n])),
                     row_get(columns, row, columns[n], Zero))

\* rep_data after `for cat in self.unit_categories` over the first c buckets
RECURSIVE custom_buckets(_, _, _, _)
custom_buckets(rep_data, columns, row, c) ==
    IF c = 0 THEN rep_data
    ELSE custom_bucket(custom_buckets(rep_data, columns, row, c - 1),
                       columns, row, unit_categories[c], Len(columns))

\* the four keys rep_data starts with
custom_base(mapping, columns, row, idx) ==
    [k \in {"Sales Rep", "Issued Appts", "Overall Close %", "Units Captured on Sold Jobs %"} |->
        row_get(columns, row, mapping_get(mapping, k),
                IF k = "Sales Rep" THEN Str(<<"R", "e", "p", "_">> \o IntStr(idx)) ELSE Zero)]

\* one entry of standardized_data
custom_rep_data(mapping, columns, row, idx) ==
    custom_buckets(custom_base(mapping, columns, row, idx), columns, row, Len(unit_categories))

\* standardized_data after `for idx, row in df.iterrows()` over the first n rows
RECURSIVE standardized_data(_, _, _, _)
standardized_data(mapping, columns, rows, n) ==
    IF n = 0 THEN <<>>
    ELSE Append(standardized_data(mapping, columns, rows, n - 1),
                custom_rep_data(mapping, columns, rows[n], n - 1))

\* pd.DataFrame(entries): its columns are the keys of the entries (listed
\* here in the standard layout's order)
data_frame(entries) ==
    [columns |-> IF entries = <<>> THEN <<>>
                 ELSE SelectSeq(StandardCols, LAMBDA k : k \in DOMAIN entries[1]),
     rows |-> entries]

\* standardized_df = pd.DataFrame(standardized_data)
standardized_df(table, mapping) ==
    data_frame(standardized_data(mapping, table.columns, table.rows, Len(table.rows)))

process_custom_format(table) ==
    process_standard_format(standardized_df(table, map_columns(table.columns, Len(table.columns))))

-----------------------------------------------------------------------------
(* Pipeline: SalesDataConverter.convert_excel_file *)

\* json.dumps(sales_data, indent=2)
json_dumps(sd) == [t |-> "json", data |-> sd]

\* `stats = self.validate_data(sales_data)` and the return; the except clause
\* re-raises what validate_data raised
validated(calls, format, sd, stats) ==
    [calls |-> Append(calls, "validate_data"),
     format |-> format,
     result |-> IF IsRaise(stats) THEN stats ELSE json_dumps(sd)]

\* the step after the normalizer returned sales_data
normalized(calls, format, out) ==
    validated(calls, format, out.data, validate_data(out.data))

\* the calls the pipeline makes, in order, and what it returns or raises;
\* x is what pd.read_excel yields
convert_excel_file(x) ==
    IF IsRaise(x) THEN [calls |-> <<"read_excel">>, format |-> None, result |-> x]
    ELSE IF detect_column_format(x) = "standard"
    THEN normalized(<<"read_excel", "detect_column_format", "process_standard_format">>,
                    "standard", process_standard_format(literal_df(x)))
    ELSE normalized(<<"read_excel", "detect_column_format", "process_custom_format",
                      "process_standard_format">>,
                    "custom", process_custom_format(x))

-----------------------------------------------------------------------------
(* Command line: main *)

\* main after convert_excel_file returned or raised; answer is what input()
\* yields ("eof": standard input is closed and input() raises EOFError inside
\* the except clause).  A record's JSON is longer than 500 characters, so the
\* printed result is always the truncated preview.
main_result(args, result, answer) ==
    IF ~IsRaise(result)
    THEN IF Len(args) > 2
         THEN [argv |-> args, stdout |-> <<"complete_saved">>,
               files |-> {[path |-> args[3], content |-> result]}, exit |-> 0]
         ELSE [argv |-> args, stdout |-> <<"complete_json", "preview_500">>,
               files |-> {}, exit |-> 0]
    ELSE IF answer = "eof"
    THEN [argv |-> args, stdout |-> <<"conversion_failed">>, files |-> {}, exit |-> 1]
    ELSE IF answer = "y"
    THEN [argv |-> args, stdout |-> <<"conversion_failed", "sample_created">>,
          files |-> {[path |-> "sample_sales_data.xlsx", content |-> None]}, exit |-> 0]
    ELSE [argv |-> args, stdout |-> <<"conversion_failed">>, files |-> {}, exit |-> 0]

\* one run of the command; the process ends with status 0 when main returns
main(args, x, answer) ==
    IF Len(args) < 2
    THEN [argv |-> args, stdout |-> <<"usage">>, files |-> {}, exit |-> 0]
    ELSE main_result(args, convert_excel_file(x).result, answer)

-----------------------------------------------------------------------------
(* SpecFile: one workbook handed to the format detector, the column mapper, *)
(* the pipeline and the command line, one after the other (each result     *)
(* depends on the workbook alone, so the order of the calls is immaterial)  *)

\* most columns of a workbook
MaxCols == 3

\* the labels the workbooks' columns are taken from, in sheet order
LabelPool ==
    <<<<"S", "a", "l", "e", "s", " ", "R", "e", "p">>,
      <<"R", "e", "p", " ", "N", "a", "m", "e">>,
      <<"T", "o", "t", "a", "l", " ", "A", "p", "p", "t", "s">>,
      <<"O", "v", "e", "r", "a", "l", "l", " ", "C", "l", "o", "s", "e">>,
      <<"0", "-", "4", " ", "C", "l", "o", "s", "e", " ", "R", "a", "t", "e">>,
      <<"T", "o", "t", "a", "l", " ", "C", "a", "p", "t", "u", "r", "e">>,
      <<"0", "-", "4", " ", "A", "p", "p", "t", "s">>,
      <<"(", "0", "-", "4", ")", " ", "I", "s", "s", "u", "e", "d", " ", "A", "p", "p", "t", "s">>>>

\* the sheets that keep at most k of the first n labels of the pool, in order
RECURSIVE LabelLists(_, _)
LabelLists(n, k) ==
    IF n = 0 THEN {<<>>}
    ELSE LET without == LabelLists(n - 1, k)
         IN  without \cup {Append(q, LabelPool[n]) : q \in {u \in without : Len(u) < k}}

Reverse(q) == [i \in 1..Len(q) |-> q[Len(q) + 1 - i]]

\* column lists in sheet order and in the opposite order
ColumnLists ==
    LabelLists(Len(LabelPool), MaxCols) \cup {Reverse(q) : q \in LabelLists(Len(LabelPool), MaxCols)}

\* a filled row: a name under a name label, a number of its own under each other label
FilledRow ==
    [c \in Range(LabelPool) |->
        IF c = LabelPool[1] THEN Str(<<"A", "l">>)
        ELSE IF c = LabelPool[2] THEN Str(<<"B", "o">>)
        ELSE Num(I(20 + CHOOSE j \in 1..Len(LabelPool) : LabelPool[j] = c))]

\* a row of blank cells
BlankRow ==
    [c \in Range(LabelPool) |-> IF c \in {LabelPool[1], LabelPool[2]} THEN Str(<<>>) ELSE NaN]

Workbooks ==
    {[t |-> "df", columns |-> cols, rows |-> [i \in 1..Len(rs) |-> Restrict(rs[i], cols)]] :
        cols \in ColumnLists,
        rs \in {<<>>, <<FilledRow>>, <<BlankRow>>, <<BlankRow, FilledRow>>}}

CommandLines ==
    {<<"converter.py">>, <<"converter.py", "in.xlsx">>, <<"converter.py", "in.xlsx", "out.json">>}

FileInit ==
    /\ xl \in Workbooks \cup {Raise("FileNotFoundError")}
    /\ format_type = "pending"
    /\ column_mapping = Pending
    /\ file_out = Pending
    /\ cli = Pending
    /\ CoerceIdle /\ ConvertIdle /\ ScoreIdle /\ DashIdle

\* converter.detect_column_format(df)
DetectColumnFormat ==
    /\ ~IsRaise(xl)
    /\ format_type = "pending"
    /\ format_type' = detect_column_format(xl)
    /\ UNCHANGED <<xl, column_mapping, file_out, cli>>
    /\ UNCHANGED <<coerce_vars, convert_vars, score_vars, dash_vars>>

\* converter.process_custom_format(df): the mapping it builds and what it returns
ProcessCustomFormat ==
    /\ ~IsRaise(xl)
    /\ format_type # "pending"
    /\ column_mapping = Pending
    /\ column_mapping' = [mapping |-> map_columns(xl.columns, Len(xl.columns)),
                          out |-> process_custom_format(xl)]
    /\ UNCHANGED <<xl, format_type, file_out, cli>>
    /\ UNCHANGED <<coerce_vars, convert_vars, score_vars, dash_vars>>

\* converter.convert_excel_file(file_path)
ConvertExcelFile ==
    /\ IsRaise(xl) \/ column_mapping # Pending
    /\ file_out = Pending
    /\ file_out' = convert_excel_file(xl)
    /\ UNCHANGED <<xl, format_type, column_mapping, cli>>
    /\ UNCHANGED <<coerce_vars, convert_vars, score_vars, dash_vars>>

\* python converter.py [<excel_file_path> [output_file]]
Main ==
    /\ file_out # Pending
    /\ cli = Pending
    /\ \E args \in CommandLines, answer \in {"y", "n", "eof"} : cli' = main(args, xl, answer)
    /\ UNCHANGED <<xl, format_type, column_mapping, file_out>>
    /\ UNCHANGED <<coerce_vars, convert_vars, score_vars, dash_vars>>

FileNext == DetectColumnFormat \/ ProcessCustomFormat \/ ConvertExcelFile \/ Main

SpecFile == FileInit /\ [][FileNext]_vars

-----------------------------------------------------------------------------
(* Claims about format detection and routing *)

\* "(<bucket>) Issued Appts" for each bucket of the fixed list
BucketApptsPatterns ==
    {<<"(", "0", "-", "4", ")", " ", "I", "s", "s", "u", "e", "d", " ", "A", "p", "p", "t", "s">>,
     <<"(", "5", "-", "9", ")", " ", "I", "s", "s", "u", "e", "d", " ", "A", "p", "p", "t", "s">>,
     <<"(", "1", "0", "-", "1", "7", ")", " ", "I", "s", "s", "u", "e", "d", " ", "A", "p", "p", "t", "s">>,
     <<"(", "1", "8", "-", "2", "5", ")", " ", "I", "s", "s", "u", "e", "d", " ", "A", "p", "p", "t", "s">>,
     <<"(", "2", "6", "+", ")", " ", "I", "s", "s", "u", "e", "d", " ", "A", "p", "p", "t", "s">>}

\* some label carries one of the patterns
HasBucketApptsLabel(columns) ==
    \E j \in 1..Len(columns) : \E pat \in BucketApptsPatterns :
        \E pre \in 0..Len(columns[j]) :
            /\ pre + Len(pat) <= Len(columns[j])
            /\ \A i \in 1..Len(pat) : columns[j][pre + i] = pat[i]

\* C11: detect_column_format returns "standard" iff some label carries
\* "(<bucket>) Issued Appts" for a bucket of the fixed list and "custom"
\* otherwise; convert_excel_file hands a standard table directly to
\* process_standard_format and a custom table to process_custom_format first,
\* validate_data is the last call in both cases, and a result is returned only
\* when validation passed (otherwise its error is raised).
C11_DetectAndRoute ==
    /\ format_type # "pending" =>
          format_type = IF HasBucketApptsLabel(xl.columns) THEN "standard" ELSE "custom"
    /\ (file_out # Pending /\ ~IsRaise(xl)) =>
          /\ file_out.format = format_type
          /\ file_out.calls =
                IF format_type = "standard"
                THEN <<"read_excel", "detect_column_format", "process_standard_format",
                       "validate_data">>
                ELSE <<"read_excel", "detect_column_format", "process_custom_format",
                       "process_standard_format", "validate_data">>
          /\ IF format_type = "standard"
             THEN file_out.result.t = "json" =>
                     file_out.result.data = process_standard_format(literal_df(xl)).data
             ELSE file_out.result.t = "json" => file_out.result.data = column_mapping.out.data
          /\ file_out.result.t = "json" <=>
                ~IsRaise(validate_data(IF format_type = "standard"
                                       THEN process_standard_format(literal_df(xl)).data
                                       ELSE column_mapping.out.data))

\* a custom workbook went through the column mapper and was returned after validation
C11_Witness ==
    /\ format_type = "custom"
    /\ file_out # Pending
    /\ file_out.result.t = "json"
    /\ Len(file_out.result.data) = 2
    /\ "process_custom_format" \in Range(file_out.calls)

-----------------------------------------------------------------------------
(* Claims about the column mapper *)

CanonicalSlots == {"Sales Rep", "Issued Appts", "Overall Close %", "Units Captured on Sold Jobs %"}

\* the positions of the labels that match the keywords of a slot
SlotMatches(slot) == {j \in 1..Len(xl.columns) : slot_of(Lower(xl.columns[j])) = slot}

\* C12 (as claimed): in a custom table, a slot matched by several labels is
\* mapped to the first of them in column order; a later "0-4 Close Rate" never
\* replaces an earlier "Overall Close" in the overall close-rate slot.
C12_FirstMatchWins ==
    (column_mapping # Pending /\ format_type = "custom") =>
        /\ \A slot \in CanonicalSlots :
              SlotMatches(slot) # {} =>
                 /\ slot \in DOMAIN column_mapping.mapping
                 /\ \E j \in SlotMatches(slot) :
                       /\ \A i \in SlotMatches(slot) : j <= i
                       /\ column_mapping.mapping[slot] = xl.columns[j]
        /\ (\E i, j \in 1..Len(xl.columns) :
               /\ i < j
               /\ xl.columns[i] = <<"O", "v", "e", "r", "a", "l", "l", " ", "C", "l", "o", "s", "e">>
               /\ xl.columns[j] = <<"0", "-", "4", " ", "C", "l", "o", "s", "e", " ", "R", "a", "t", "e">>)
           => column_mapping.mapping["Overall Close %"] = <<"O", "v", "e", "r", "a", "l", "l", " ", "C", "l", "o", "s", "e">>

\* what the mapper does: every matched slot is mapped, to one of its matching labels
MappedToAMatch ==
    column_mapping # Pending =>
        /\ DOMAIN column_mapping.mapping = {slot \in CanonicalSlots : SlotMatches(slot) # {}}
        /\ \A slot \in DOMAIN column_mapping.mapping :
              \E j \in SlotMatches(slot) : column_mapping.mapping[slot] = xl.columns[j]

-----------------------------------------------------------------------------
(* Claims about the command line *)

\* a run of the command with an input path
Converted == cli # Pending /\ Len(cli.argv) >= 2

\* the run wrote nothing to the output path
NoOutputWritten == \A f \in cli.files : Len(cli.argv) > 2 => f.path # cli.argv[3]

\* C13 (as claimed): the JSON is written to the output path when one is given
\* and otherwise printed (truncated preview when long); whenever the pipeline
\* raises, the command prints a failure message and ends with a non-zero exit
\* status, without writing the output file.
C13_CliOutcome ==
    Converted =>
        IF file_out.result.t = "json"
        THEN /\ Len(cli.argv) > 2 =>
                   cli.files = {[path |-> cli.argv[3], content |-> file_out.result]}
             /\ Len(cli.argv) = 2 =>
                   cli.files = {} /\ "preview_500" \in Range(cli.stdout)
        ELSE /\ "conversion_failed" \in Range(cli.stdout)
             /\ cli.exit # 0
             /\ NoOutputWritten

\* what the command does keep of C13: the success half, and on failure the
\* message without the output file
CliWithoutExitStatus ==
    Converted =>
        IF file_out.result.t = "json"
        THEN /\ Len(cli.argv) > 2 =>
                   cli.files = {[path |-> cli.argv[3], content |-> file_out.result]}
             /\ Len(cli.argv) = 2 =>
                   cli.files = {} /\ "preview_500" \in Range(cli.stdout)
             /\ cli.exit = 0
        ELSE /\ "conversion_failed" \in Range(cli.stdout)
             /\ NoOutputWritten

-----------------------------------------------------------------------------
(* Claims about the defaults of the custom path *)

\* the records process_custom_format emitted for a custom-layout workbook
CustomRecords ==
    IF column_mapping # Pending /\ format_type = "custom" THEN column_mapping.out.data ELSE <<>>

\* the labels that set the key of a bucket field
BucketSources(k, cat) == {j \in 1..Len(xl.columns) : bucket_key(cat, Lower(xl.columns[j])) = k}

\* the label an overall field is read from, if the table has one
OverallSource(slot) ==
    IF slot \in DOMAIN column_mapping.mapping THEN {column_mapping.mapping[slot]}
    ELSE {label_text(slot)} \cap Range(xl.columns)

\* the emitted value of a mapped cell: numbers above 1 are kept, blank cells
\* are 0 for a count and absent for a rate
Emitted(cell, is_rate) == IF cell = NaN THEN (IF is_rate THEN None ELSE Zero) ELSE cell

\* the value of an overall field: the default when no label is mapped to it
OverallValue(slot, row, is_rate, dflt) ==
    IF OverallSource(slot) = {} THEN dflt
    ELSE Emitted(row[CHOOSE c \in OverallSource(slot) : TRUE], is_rate)

\* the value of a bucket field: the default when no label is mapped to it
BucketValue(k, cat, row, is_rate, dflt) ==
    IF BucketSources(k, cat) = {} THEN dflt
    ELSE Emitted(row[xl.columns[CHOOSE j \in BucketSources(k, cat) : TRUE]], is_rate)

\* the fields of record r are those of row, with rate_default for the overall
\* rates no label is mapped to
FieldsOf(r, row, rate_default) ==
    /\ r.totalAppts = OverallValue("Issued Appts", row, FALSE, Zero)
    /\ r.overallClose = OverallValue("Overall Close %", row, TRUE, rate_default)
    /\ r.overallCapture = OverallValue("Units Captured on Sold Jobs %", row, TRUE, rate_default)
    /\ \A cat \in Cats :
          /\ r.categories[cat].appointments = BucketValue(appts_col(cat), cat, row, FALSE, Zero)
          /\ r.categories[cat].closeRate = BucketValue(close_col(cat), cat, row, TRUE, None)
          /\ r.categories[cat].captureRate = BucketValue(capture_col(cat), cat, row, TRUE, None)

\* a workbook with one row, which was emitted
OneRowEmitted == ~IsRaise(xl) /\ Len(xl.rows) = 1 /\ Len(CustomRecords) = 1

\* C15 (as claimed): in a record of a custom-layout table, a field no label is
\* mapped to is 0 if it is an appointment count (total or per bucket) and
\* absent if it is a rate (overall or per bucket); a mapped field takes the
\* value of the mapped source cell.
C15_CustomDefaults == OneRowEmitted => FieldsOf(CustomRecords[1], xl.rows[1], None)

\* what the custom path does: as C15, except that an overall rate no label is
\* mapped to is emitted as 0
CustomDefaultsAsCoded == OneRowEmitted => FieldsOf(CustomRecords[1], xl.rows[1], Zero)

-----------------------------------------------------------------------------
(* Claims about the detailed bucket rankings *)

\* closeRate*0.6 + min(captureRate or 0, 150)*0.4 of record r in bucket cat
CappedCapture(capture) == IF capture.n > 150 * capture.d THEN I(150) ELSE capture
ScoreOf(c) ==
    RAdd(RMul(c.closeRate.v, R(3, 5)),
         RMul(CappedCapture(IF c.captureRate = None THEN I(0) ELSE c.captureRate.v), R(2, 5)))
ScoreIn(r, cat) == ScoreOf(r.categories[cat])

\* whether bucket data c qualifies for the detailed ranking
Qualifies(c) ==
    /\ c.appointments.v.n >= 2 * c.appointments.v.d
    /\ c.closeRate # None
    /\ c.closeRate.v.n > 0

\* the positions of the reps that qualify for the detailed ranking of cat
Ranked(cat) == {i \in 1..Len(sales_data) : Qualifies(sales_data[i].categories[cat])}

\* how many qualifying reps of cat have the name and the bucketScore given
Qualifying(cat, nm, score) ==
    Cardinality({i \in Ranked(cat) : sales_data[i].name = nm /\ ScoreIn(sales_data[i], cat) = score})

\* how many rows have the name and the Score given
Listed(rows, nm, score) ==
    Cardinality({k \in 1..Len(rows) : rows[k].name = nm /\ rows[k].Score = score})

\* rows lists qualifying reps of cat only, each at most once, and every
\* qualifying rep it leaves out scores no more than its last row
ListsTheHighest(rows, cat) ==
    /\ \A k \in 1..Len(rows) :
          Listed(rows, rows[k].name, rows[k].Score) <= Qualifying(cat, rows[k].name, rows[k].Score)
    /\ \A i \in Ranked(cat) :
          Listed(rows, sales_data[i].name, ScoreIn(sales_data[i], cat))
                < Qualifying(cat, sales_data[i].name, ScoreIn(sales_data[i], cat))
             => RLe(ScoreIn(sales_data[i], cat), rows[Len(rows)].Score)

\* rows is the detailed ranking of cat
IsDetailedRanking(rows, cat) ==
    /\ Len(rows) = IF Cardinality(Ranked(cat)) > 10 THEN 10 ELSE Cardinality(Ranked(cat))
    /\ \A k \in 1..Len(rows) : rows[k].Rank = k
    /\ \A k \in 1..(Len(rows) - 1) : RLe(rows[k + 1].Score, rows[k].Score)
    /\ ListsTheHighest(rows, cat)
    /\ leaders[cat] # None =>
          /\ rows # <<>>
          /\ RLe(ScoreIn(leaders[cat], cat), rows[1].Score)

\* C16: in a run that rendered the detailed rankings, the ranking of each
\* bucket lists exactly the reps with appointments >= 2, closeRate present and
\* closeRate > 0 in the bucket, in non-increasing order of
\* closeRate*0.6 + min(captureRate or 0, 150)*0.4, cut to the 10 highest, with
\* ranks 1..n in that order; where the bucket has a category leader the
\* ranking is non-empty and its first row scores no less than the leader.
C16_DetailedRanking ==
    rankings # <<>> => \A cat \in Cats : IsDetailedRanking(rankings[cat], cat)

\* a run whose bucket 0-4 has more than ten qualifying reps and a leader: ten
\* are listed, the first with two appointments only, and bucket 26+ lists none
C16_Witness ==
    /\ rankings # <<>>
    /\ Cardinality(Ranked("0-4")) > 10
    /\ Len(rankings["0-4"]) = 10
    /\ rankings["0-4"][1].Appointments = Num(I(2))
    /\ leaders["0-4"] # None
    /\ rankings["26+"] = <<>>

-----------------------------------------------------------------------------
(* Claims about the dataset and its ranking across loads *)

\* how many rows of the ranking hold record r as rawData
TimesRanked(r) == Cardinality({k \in 1..Len(ranked_reps) : ranked_reps[k].rawData = r})

\* how many records of the dataset equal r
TimesHeld(r) == Cardinality({i \in 1..Len(sales_data) : sales_data[i] = r})

\* the ranking holds the records of the dataset, each scored once and carried
\* unmodified as rawData, in non-increasing order of score
RankingOfDataset ==
    /\ Len(ranked_reps) = Len(sales_data)
    /\ \A k \in 1..Len(ranked_reps) :
          /\ ranked_reps[k] = calculate_performance_score(ranked_reps[k].rawData)
          /\ TimesRanked(ranked_reps[k].rawData) = TimesHeld(ranked_reps[k].rawData)
    /\ \A k \in 1..(Len(ranked_reps) - 1) : RLe(ranked_reps[k + 1].score.v, ranked_reps[k].score.v)

\* the datasets a load can convert a table into
ConvertedDatasets ==
    {convert_excel_to_sales_data(t) : t \in UploadTables \cup SheetTables}

\* a run leaves the dataset and the ranking as they were unless its load
\* succeeded, and then the dataset is the converted table, whole
LoadStep ==
    IF load_msg' = "success"
    THEN Ok(sales_data') \in ConvertedDatasets
    ELSE sales_data' = sales_data /\ ranked_reps' = ranked_reps

\* C17: after any sequence of load attempts, succeeding or failing, the ranking
\* in use is exactly the records of the current dataset, each scored once and
\* unmodified, in non-increasing score order; a successful load replaces the
\* dataset wholesale with the newly converted records and re-ranks it, and a
\* failed load leaves the dataset and the ranking as they were.
C17_DatasetRankingConsistency == []RankingOfDataset /\ [][LoadStep]_vars

\* a failed load that left a loaded dataset of several records in place, whose
\* ranking is not in dataset order
C17_Witness ==
    /\ load_msg = "error"
    /\ sales_data # SampleData
    /\ Len(sales_data) >= 2
    /\ ranked_reps[1].rawData = sales_data[Len(sales_data)]
    /\ ranked_reps[1].rawData # sales_data[1]

=============================================================================
